---- MODULE Spec2Model ----
(***************************************************************************)
(* supermarket-deals: the command-line search pipeline.                    *)
(*   api.ts       credential cache, homepage scrape, searchOffers          *)
(*   index.ts     parseArgs, performSearch, runSearch, main                *)
(*   config.ts    preference file                                          *)
(*   formatter.ts mapOfferToDeal, computePricePerLitre                     *)
(* Strings are sequences of one-character strings.  A JavaScript number is *)
(* a fraction [n |-> numerator, d |-> denominator] with d > 0.  An absent  *)
(* (undefined / null) value is the record Null.                            *)
(***************************************************************************)
EXTENDS Integers, Sequences, FiniteSets, TLC

\* ------------------------------------------------------------------------
\* Bounds of the model
\* ------------------------------------------------------------------------
\* offers the upstream returns during one invocation, over all responses
MaxOffers == 2
\* failing responses (homepage or search) during one invocation
MaxFailures == 2
\* clock steps during one invocation
MaxTicks == 1
\* length of the generated offer ids
MaxIdLen == 3
\* characters by which the text of a table cell exceeds its column
MaxOverflow == 3
\* invocations of the program in a row on one preference file
MaxInvocations == 3

\* ------------------------------------------------------------------------
\* Values
\* ------------------------------------------------------------------------
Null == [t |-> "null"]
Str(s) == [t |-> "str", s |-> s]
Num(n, d) == [t |-> "num", n |-> n, d |-> d]
Int1(n) == Num(n, 1)

IsNum(x) == x.t = "num"
IsStr(x) == x.t = "str"

Min(a, b) == IF a < b THEN a ELSE b

\* ------------------------------------------------------------------------
\* String primitives of the JavaScript runtime
\* ------------------------------------------------------------------------
DigitChars == {"0", "1", "2", "3", "4", "5", "6", "7", "8", "9"}
WhiteChars == {" ", "\n", "\t"}

RECURSIVE TrimStart(_)
TrimStart(s) ==
    IF s # <<>> /\ Head(s) \in WhiteChars THEN TrimStart(Tail(s)) ELSE s

RECURSIVE TrimEnd(_)
TrimEnd(s) ==
    IF s # <<>> /\ s[Len(s)] \in WhiteChars
    THEN TrimEnd(SubSeq(s, 1, Len(s) - 1)) ELSE s

\* String.prototype.trim
Trim(s) == TrimEnd(TrimStart(s))

\* String.prototype.slice(0, k)
Slice0(s, k) == SubSeq(s, 1, Min(Len(s), k))

\* String.prototype.includes
Includes(s, sub) ==
    \E i \in 0..(Len(s) - Len(sub)) : SubSeq(s, i + 1, i + Len(sub)) = sub

StartsWith(s, pre) == Len(s) >= Len(pre) /\ SubSeq(s, 1, Len(pre)) = pre

AllDigits(s) == \A i \in 1..Len(s) : s[i] \in DigitChars

DigitOf(k) ==
    CASE k = 0 -> "0" [] k = 1 -> "1" [] k = 2 -> "2" [] k = 3 -> "3"
      [] k = 4 -> "4" [] k = 5 -> "5" [] k = 6 -> "6" [] k = 7 -> "7"
      [] k = 8 -> "8" [] k = 9 -> "9"

RECURSIVE NatToStr(_)
NatToStr(k) ==
    IF k < 10 THEN <<DigitOf(k)>> ELSE NatToStr(k \div 10) \o <<DigitOf(k % 10)>>

\* String(x) of a number whose fraction part is 0 or 1/2
NumToStr(x) ==
    LET neg == x.n < 0
        a == IF neg THEN -x.n ELSE x.n
        whole == NatToStr(a \div x.d)
        frac == IF a % x.d = 0 THEN <<>> ELSE <<".", "5">>
    IN (IF neg THEN <<"-">> ELSE <<>>) \o whole \o frac

\* String.prototype.toLowerCase, one character
LowerChar(c) ==
    CASE c = "A" -> "a"
      [] c = "B" -> "b"
      [] c = "C" -> "c"
      [] c = "D" -> "d"
      [] c = "E" -> "e"
      [] c = "F" -> "f"
      [] c = "G" -> "g"
      [] c = "H" -> "h"
      [] c = "I" -> "i"
      [] c = "J" -> "j"
      [] c = "K" -> "k"
      [] c = "L" -> "l"
      [] c = "M" -> "m"
      [] c = "N" -> "n"
      [] c = "O" -> "o"
      [] c = "P" -> "p"
      [] c = "Q" -> "q"
      [] c = "R" -> "r"
      [] c = "S" -> "s"
      [] c = "T" -> "t"
      [] c = "U" -> "u"
      [] c = "V" -> "v"
      [] c = "W" -> "w"
      [] c = "X" -> "x"
      [] c = "Y" -> "y"
      [] c = "Z" -> "z"
      [] OTHER -> c

ToLower(s) == [i \in 1..Len(s) |-> LowerChar(s[i])]

\* ------------------------------------------------------------------------
\* Number primitives
\* ------------------------------------------------------------------------
\* A number is the fraction n/d with d >= 0; d = 0 holds the values that are
\* not finite: 1/0 is Infinity, -1/0 is -Infinity and 0/0 is NaN.
Infinity == Num(1, 0)
NaN == Num(0, 0)
IsFinite(x) == x.d # 0
IsInteger(x) == IsNum(x) /\ x.n % x.d = 0
Floor(x) == Int1(x.n \div x.d)
NumLess(x, y) == x.n * y.d < y.n * x.d
NumLeq(x, y) == x.n * y.d <= y.n * x.d
NumEq(x, y) == x.n * y.d = y.n * x.d
NumMul(x, y) == Num(x.n * y.n, x.d * y.d)
\* mutation: = in place of +=
NumAdd_KeepRight(x, y) == y
NumAdd(x, y) == Num(x.n * y.d + y.n * x.d, x.d * y.d)
\* the sign of x - y
NumSignOfDiff(x, y) ==
    IF NumLess(x, y) THEN -1 ELSE IF NumEq(x, y) THEN 0 ELSE 1

\* ------------------------------------------------------------------------
\* Literal texts of the program
\* ------------------------------------------------------------------------
\* "Query must not be empty."
MsgQueryEmpty ==
    <<"Q", "u", "e", "r", "y", " ", "m", "u", "s", "t", " ", "n", "o", "t",
    " ", "b", "e", " ", "e", "m", "p", "t", "y", ".">>

\* "Query too long (max "
MsgQueryTooLongPre ==
    <<"Q", "u", "e", "r", "y", " ", "t", "o", "o", " ", "l", "o", "n", "g",
    " ", "(", "m", "a", "x", " ">>

\* " characters)."
MsgQueryTooLongPost ==
    <<" ", "c", "h", "a", "r", "a", "c", "t", "e", "r", "s", ")", ".">>

\* "Invalid ZIP code: \""
MsgInvalidZipPre ==
    <<"I", "n", "v", "a", "l", "i", "d", " ", "Z", "I", "P", " ", "c", "o",
    "d", "e", ":", " ", "\"">>

\* "\". Expected 4-6 digits."
MsgInvalidZipPost ==
    <<"\"", ".", " ", "E", "x", "p", "e", "c", "t", "e", "d", " ", "4", "-",
    "6", " ", "d", "i", "g", "i", "t", "s", ".">>

\* "Limit must be an integer between 1 and "
MsgLimitPre ==
    <<"L", "i", "m", "i", "t", " ", "m", "u", "s", "t", " ", "b", "e", " ",
    "a", "n", " ", "i", "n", "t", "e", "g", "e", "r", " ", "b", "e", "t",
    "w", "e", "e", "n", " ", "1", " ", "a", "n", "d", " ">>

\* "Failed to fetch Marktguru homepage: HTTP "
MsgHomepagePre ==
    <<"F", "a", "i", "l", "e", "d", " ", "t", "o", " ", "f", "e", "t", "c",
    "h", " ", "M", "a", "r", "k", "t", "g", "u", "r", "u", " ", "h", "o",
    "m", "e", "p", "a", "g", "e", ":", " ", "H", "T", "T", "P", " ">>

\* "Could not extract API keys from marktguru homepage JSON config."
MsgNoKeys ==
    <<"C", "o", "u", "l", "d", " ", "n", "o", "t", " ", "e", "x", "t", "r",
    "a", "c", "t", " ", "A", "P", "I", " ", "k", "e", "y", "s", " ", "f",
    "r", "o", "m", " ", "m", "a", "r", "k", "t", "g", "u", "r", "u", " ",
    "h", "o", "m", "e", "p", "a", "g", "e", " ", "J", "S", "O", "N", " ",
    "c", "o", "n", "f", "i", "g", ".">>

\* "Marktguru search failed: HTTP "
MsgSearchPre ==
    <<"M", "a", "r", "k", "t", "g", "u", "r", "u", " ", "s", "e", "a", "r",
    "c", "h", " ", "f", "a", "i", "l", "e", "d", ":", " ", "H", "T", "T",
    "P", " ">>

\* "Unexpected Marktguru response: not an object."
MsgNotObject ==
    <<"U", "n", "e", "x", "p", "e", "c", "t", "e", "d", " ", "M", "a", "r",
    "k", "t", "g", "u", "r", "u", " ", "r", "e", "s", "p", "o", "n", "s",
    "e", ":", " ", "n", "o", "t", " ", "a", "n", " ", "o", "b", "j", "e",
    "c", "t", ".">>

\* "Unexpected Marktguru response: results is not an array."
MsgNotArray ==
    <<"U", "n", "e", "x", "p", "e", "c", "t", "e", "d", " ", "M", "a", "r",
    "k", "t", "g", "u", "r", "u", " ", "r", "e", "s", "p", "o", "n", "s",
    "e", ":", " ", "r", "e", "s", "u", "l", "t", "s", " ", "i", "s", " ",
    "n", "o", "t", " ", "a", "n", " ", "a", "r", "r", "a", "y", ".">>

\* "Unexpected end of JSON input"
MsgJsonSyntax ==
    <<"U", "n", "e", "x", "p", "e", "c", "t", "e", "d", " ", "e", "n", "d",
    " ", "o", "f", " ", "J", "S", "O", "N", " ", "i", "n", "p", "u", "t">>

\* "--limit must be a positive number"
MsgLimitOption ==
    <<"-", "-", "l", "i", "m", "i", "t", " ", "m", "u", "s", "t", " ", "b",
    "e", " ", "a", " ", "p", "o", "s", "i", "t", "i", "v", "e", " ", "n",
    "u", "m", "b", "e", "r">>

\* "Error: "
ErrorPrefix ==
    <<"E", "r", "r", "o", "r", ":", " ">>

\* "HTTP 401"
Http401 ==
    <<"H", "T", "T", "P", " ", "4", "0", "1">>

\* "HTTP 403"
Http403 ==
    <<"H", "T", "T", "P", " ", "4", "0", "3">>

\* "https://www.marktguru.de/offers/"
OffersUrlPrefix ==
    <<"h", "t", "t", "p", "s", ":", "/", "/", "w", "w", "w", ".", "m", "a",
    "r", "k", "t", "g", "u", "r", "u", ".", "d", "e", "/", "o", "f", "f",
    "e", "r", "s", "/">>

\* "Usage: supermarket-deals config set <zip|stores> <value>"
MsgConfigUsage ==
    <<"U", "s", "a", "g", "e", ":", " ", "s", "u", "p", "e", "r", "m", "a",
    "r", "k", "e", "t", "-", "d", "e", "a", "l", "s", " ", "c", "o", "n",
    "f", "i", "g", " ", "s", "e", "t", " ", "<", "z", "i", "p", "|", "s",
    "t", "o", "r", "e", "s", ">", " ", "<", "v", "a", "l", "u", "e", ">">>

\* "stores must be a comma-separated list"
MsgStoresList ==
    <<"s", "t", "o", "r", "e", "s", " ", "m", "u", "s", "t", " ", "b", "e",
    " ", "a", " ", "c", "o", "m", "m", "a", "-", "s", "e", "p", "a", "r",
    "a", "t", "e", "d", " ", "l", "i", "s", "t">>

\* "Supported config keys: zip, stores, reset"
MsgSupportedKeys ==
    <<"S", "u", "p", "p", "o", "r", "t", "e", "d", " ", "c", "o", "n", "f",
    "i", "g", " ", "k", "e", "y", "s", ":", " ", "z", "i", "p", ",", " ",
    "s", "t", "o", "r", "e", "s", ",", " ", "r", "e", "s", "e", "t">>

\* the message of the error of node:fs when the file cannot be opened
MsgNoAccess ==
    <<"E", "A", "C", "C", "E", "S", ":", " ", "p", "e", "r", "m", "i", "s",
    "s", "i", "o", "n", " ", "d", "e", "n", "i", "e", "d">>

\* "85540"
DefaultZip ==
    <<"8", "5", "5", "4", "0">>

\* DEFAULT_CONFIG.defaultStores ("Ue" stands for the one character U-umlaut)
DefaultStores ==
    << <<"A", "l", "d", "i">>,
       <<"L", "i", "d", "l">>,
       <<"R", "E", "W", "E">>,
       <<"E", "D", "E", "K", "A">>,
       <<"A", "L", "D", "I", " ", "S", "Ue", "D">>,
       <<"A", "L", "D", "I", " ", "N", "O", "R", "D">>,
       <<"K", "a", "u", "f", "l", "a", "n", "d">> >>

DEFAULT_CONFIG == [defaultZip |-> DefaultZip, defaultStores |-> DefaultStores]

\* ------------------------------------------------------------------------
\* api.ts: constants and pure functions
\* ------------------------------------------------------------------------
CACHE_TTL_MS == 6 * 60 * 60 * 1000
MAX_QUERY_LENGTH == 100
MAX_LIMIT == 100
DEFAULT_LIMIT == 20

\* ZIP_REGEX = /^\d{4,6}$/
ZipRegexTest(zipCode) ==
    Len(zipCode) >= 4 /\ Len(zipCode) <= 6 /\ AllDigits(zipCode)

\* mutation: the integer test is dropped
LimitInRange_NoIntegerTest(limit) ==
    /\ ~NumLess(limit, Int1(1))
    /\ ~NumLess(Int1(MAX_LIMIT), limit)

LimitInRange(limit) ==
    /\ IsInteger(limit)
    /\ ~NumLess(limit, Int1(1))
    /\ ~NumLess(Int1(MAX_LIMIT), limit)

\* validateInputs: Null when the inputs pass, else the message of the error
validateInputs(query, zipCode, limit) ==
    IF query = <<>> \/ Len(Trim(query)) = 0
    THEN Str(MsgQueryEmpty)
    ELSE IF Len(query) > MAX_QUERY_LENGTH
    THEN Str(MsgQueryTooLongPre \o NatToStr(MAX_QUERY_LENGTH) \o MsgQueryTooLongPost)
    ELSE IF ~ZipRegexTest(zipCode)
    THEN Str(MsgInvalidZipPre \o zipCode \o MsgInvalidZipPost)
    ELSE IF ~LimitInRange(limit)
    THEN Str(MsgLimitPre \o NatToStr(MAX_LIMIT) \o <<".">>)
    ELSE Null

\* The cache file is Null (absent, unreadable or not JSON) or the parsed
\* object; an absent or empty token is <<>>, an absent fetchedAt is 0.
Keys(a, c, f) == [t |-> "keys", apiKey |-> a, clientKey |-> c, fetchedAt |-> f]

\* mutation: a pair aged exactly the TTL is stale
CacheFresh_Strict(fetchedAt, nowMs) == nowMs - fetchedAt < CACHE_TTL_MS

CacheFresh(fetchedAt, nowMs) == ~(nowMs - fetchedAt > CACHE_TTL_MS)

readCachedKeys(file, nowMs) ==
    IF file = Null THEN Null
    ELSE IF file.apiKey = <<>> \/ file.clientKey = <<>> \/ file.fetchedAt = 0
    THEN Null
    ELSE IF ~CacheFresh(file.fetchedAt, nowMs) THEN Null
    ELSE file

\* The homepage document is the sequence of its application/json script
\* blocks in document order: an empty block, a block that is not JSON, or a
\* parsed block with config.apiKey and config.clientKey (<<>> when absent).
BlockEmpty == [t |-> "empty"]
BlockMalformed == [t |-> "malformed"]
BlockJson(a, c) == [t |-> "json", apiKey |-> a, clientKey |-> c]

BlockHasKeys(b) == b.t = "json" /\ b.apiKey # <<>> /\ b.clientKey # <<>>

\* extractKeysFromHtml: the first block with both tokens, Null when it throws
extractKeysFromHtml(html) ==
    LET good == {i \in 1..Len(html) : BlockHasKeys(html[i])}
    IN IF good = {} THEN Null
       ELSE LET i == CHOOSE j \in good : \A k \in good : j <= k
            IN [apiKey |-> html[i].apiKey, clientKey |-> html[i].clientKey]

\* mutation: the pair is stamped with an earlier time than that of the scrape
fetchFreshKeys_StaleStamp(resp, nowMs) ==
    IF ~resp.ok
    THEN [t |-> "err", msg |-> MsgHomepagePre \o NatToStr(resp.status)]
    ELSE LET keys == extractKeysFromHtml(resp.html)
         IN IF keys = Null
            THEN [t |-> "err", msg |-> MsgNoKeys]
            ELSE [t |-> "ok", keys |-> Keys(keys.apiKey, keys.clientKey, nowMs - 1)]

\* fetchFreshKeys on one homepage response: the keys to save and return,
\* or the error thrown
fetchFreshKeys(resp, nowMs) ==
    IF ~resp.ok
    THEN [t |-> "err", msg |-> MsgHomepagePre \o NatToStr(resp.status)]
    ELSE LET keys == extractKeysFromHtml(resp.html)
         IN IF keys = Null
            THEN [t |-> "err", msg |-> MsgNoKeys]
            ELSE [t |-> "ok", keys |-> Keys(keys.apiKey, keys.clientKey, nowMs)]

\* searchOffers.run on one search response: the value returned or the error
SearchFailedMessage(status, body) ==
    Trim(MsgSearchPre \o NatToStr(status) \o <<" ">> \o Slice0(body, 200))

runResponse(resp) ==
    IF ~resp.ok
    THEN [t |-> "err", msg |-> SearchFailedMessage(resp.status, resp.body)]
    ELSE IF resp.json.t = "badjson"
    THEN [t |-> "err", msg |-> MsgJsonSyntax]
    ELSE IF resp.json.t # "object"
    THEN [t |-> "err", msg |-> MsgNotObject]
    ELSE IF resp.json.results = Null
    THEN [t |-> "err", msg |-> MsgNotArray]
    ELSE [t |-> "ok",
          totalResults |-> IF IsNum(resp.json.totalResults)
                           THEN resp.json.totalResults ELSE Int1(0),
          results |-> resp.json.results.items]

\* the test of the catch block of searchOffers
IsAuthFailure(message) == Includes(message, Http401) \/ Includes(message, Http403)

\* mutation: the characters that are not digits are removed and the rest kept
sanitizeOfferId_KeepDigits(id) ==
    IF id = Null THEN Null
    ELSE LET str == SelectSeq(IF IsNum(id) THEN NumToStr(id) ELSE id.s,
                              LAMBDA c : c \in DigitChars)
         IN IF str # <<>> THEN Str(str) ELSE Null

\* sanitizeOfferId: the trimmed text of a numeric id, else Null
sanitizeOfferId(id) ==
    IF id = Null THEN Null
    ELSE LET str == Trim(IF IsNum(id) THEN NumToStr(id) ELSE id.s)
         IN IF str # <<>> /\ AllDigits(str) THEN Str(str) ELSE Null

\* ------------------------------------------------------------------------
\* config.ts: the preference file
\* ------------------------------------------------------------------------
List(items) == [t |-> "list", items |-> items]

\* The preference file is Null (absent or not JSON), Unwritable (a path that
\* can be neither read nor written: no permission, or a directory) or the
\* parsed object; a field that is absent is Null, a field of another type is
\* the value of that type.
ConfigFile(zip, stores) == [t |-> "cfg", defaultZip |-> zip, defaultStores |-> stores]
Unwritable == [t |-> "unwritable"]

SelectNonEmpty(ss) == SelectSeq(ss, LAMBDA s : s # <<>>)
TrimAll(ss) == [i \in 1..Len(ss) |-> Trim(ss[i])]

normalizeConfig(raw) ==
    [defaultZip |->
        IF IsStr(raw.defaultZip) /\ Trim(raw.defaultZip.s) # <<>>
        THEN Trim(raw.defaultZip.s) ELSE DEFAULT_CONFIG.defaultZip,
     defaultStores |->
        IF raw.defaultStores.t = "list" /\ Len(raw.defaultStores.items) > 0
        THEN SelectNonEmpty(TrimAll(raw.defaultStores.items))
        ELSE DEFAULT_CONFIG.defaultStores]

\* what saveConfig writes
saveConfig(config) == ConfigFile(Str(config.defaultZip), List(config.defaultStores))

\* mutation: the preferences read are written back
loadConfig_WriteBack(file) ==
    IF file = Unwritable
    THEN [t |-> "err", msg |-> MsgNoAccess, file |-> file]
    ELSE IF file = Null
    THEN [t |-> "ok", config |-> DEFAULT_CONFIG, file |-> saveConfig(DEFAULT_CONFIG)]
    ELSE [t |-> "ok", config |-> normalizeConfig(file),
          file |-> saveConfig(normalizeConfig(file))]

\* loadConfig: the preferences returned and the file left behind, or the
\* error of saveConfig in the catch block
loadConfig(file) ==
    IF file = Unwritable
    THEN [t |-> "err", msg |-> MsgNoAccess, file |-> file]
    ELSE IF file = Null
    THEN [t |-> "ok", config |-> DEFAULT_CONFIG, file |-> saveConfig(DEFAULT_CONFIG)]
    ELSE [t |-> "ok", config |-> normalizeConfig(file), file |-> file]

\* String.prototype.split(","), from the piece that starts at position i
RECURSIVE SplitFrom(_, _, _)
SplitFrom(s, i, piece) ==
    IF i > Len(s) THEN <<piece>>
    ELSE IF s[i] = "," THEN <<piece>> \o SplitFrom(s, i + 1, <<>>)
    ELSE SplitFrom(s, i + 1, Append(piece, s[i]))
SplitCommas(s) == SplitFrom(s, 1, <<>>)

\* parseCsvStores: Null is undefined
parseCsvStores(input) ==
    IF input = <<>> THEN Null
    ELSE LET values == SelectNonEmpty(TrimAll(SplitCommas(input)))
         IN IF Len(values) > 0 THEN List(values) ELSE Null

\* ------------------------------------------------------------------------
\* formatter.ts: the deal of one offer
\* ------------------------------------------------------------------------
\* An offer of the search response; every field is Null when absent.
\*   store is advertisers[0].name, name is product.name, unit is
\*   unit.shortName
Offer(id, name, store, price, referencePrice, description, volume, quantity, unit) ==
    [id |-> id, name |-> name, store |-> store, price |-> price,
     referencePrice |-> referencePrice, description |-> description,
     volume |-> volume, quantity |-> quantity, unit |-> unit]

\* mutation: the quantity of the offer is ignored
computePricePerLitre_NoQuantity(offer) ==
    IF /\ IsStr(offer.unit)
       /\ ToLower(offer.unit.s) = <<"l">>
       /\ IsNum(offer.referencePrice)
    THEN offer.referencePrice
    ELSE IF ~IsNum(offer.price) \/ ~IsNum(offer.volume) THEN Null
    ELSE IF ~IsFinite(offer.volume) \/ offer.volume.n <= 0 THEN Null
    ELSE LET perLitre == Num(offer.price.n * offer.volume.d, offer.price.d * offer.volume.n)
         IN IF IsFinite(perLitre) THEN perLitre ELSE Null

computePricePerLitre(offer) ==
    IF /\ IsStr(offer.unit)
       /\ ToLower(offer.unit.s) = <<"l">>
       /\ IsNum(offer.referencePrice)
    THEN offer.referencePrice
    ELSE LET price == offer.price
             volume == offer.volume
             quantity == IF IsNum(offer.quantity) THEN offer.quantity ELSE Int1(1)
         IN IF ~IsNum(price) \/ ~IsNum(volume) THEN Null
            ELSE LET totalLitres == NumMul(volume, quantity)
                 IN IF ~IsFinite(totalLitres) \/ totalLitres.n <= 0 THEN Null
                    ELSE LET perLitre == Num(price.n * totalLitres.d,
                                             price.d * totalLitres.n)
                         IN IF IsFinite(perLitre) THEN perLitre ELSE Null

\* formatSize ("x" stands for the multiplication sign)
formatSize(offer) ==
    LET unit == IF IsStr(offer.unit) /\ offer.unit.s # <<>> THEN offer.unit.s ELSE <<"L">>
    IN IF ~IsNum(offer.volume) THEN <<"-">>
       ELSE LET volStr == NumToStr(offer.volume) \o unit
            IN IF IsNum(offer.quantity) /\ NumLess(Int1(1), offer.quantity)
               THEN NumToStr(offer.quantity) \o <<"x">> \o volStr
               ELSE volStr

OrElse(x, dflt) == IF IsStr(x) THEN x.s ELSE dflt
TrimOrElse(x, dflt) == IF IsStr(x) /\ Trim(x.s) # <<>> THEN Trim(x.s) ELSE dflt

Unknown == <<"u", "n", "k", "n", "o", "w", "n">>
UnknownProduct == <<"U", "n", "k", "n", "o", "w", "n", " ", "p", "r", "o", "d", "u", "c", "t">>
UnknownStore == <<"U", "n", "k", "n", "o", "w", "n", " ", "s", "t", "o", "r", "e">>

\* the id of a deal: the text of offer.id, else the composite key
RawId(offer) ==
    IF offer.id # Null
    THEN (IF IsNum(offer.id) THEN NumToStr(offer.id) ELSE offer.id.s)
    ELSE OrElse(offer.name, Unknown) \o <<"|">>
         \o OrElse(offer.store, Unknown) \o <<"|">>
         \o (IF IsNum(offer.price) THEN NumToStr(offer.price) ELSE <<"n", "a">>)
         \o <<"|">> \o OrElse(offer.description, <<>>)

DealUrl(offer) ==
    LET safeId == sanitizeOfferId(offer.id)
    IN IF safeId # Null THEN Str(OffersUrlPrefix \o safeId.s) ELSE Null

\* mapOfferToDeal (validFrom and validTo are not part of the model)
mapOfferToDeal(offer, sourceQuery) ==
    [id |-> RawId(offer),
     productName |-> TrimOrElse(offer.name, UnknownProduct),
     description |-> TrimOrElse(offer.description, <<>>),
     store |-> TrimOrElse(offer.store, UnknownStore),
     price |-> IF IsNum(offer.price) THEN offer.price ELSE Null,
     pricePerLitre |-> computePricePerLitre(offer),
     sourceQuery |-> sourceQuery,
     size |-> formatSize(offer),
     url |-> DealUrl(offer)]

\* ------------------------------------------------------------------------
\* formatter.ts: the table
\* ------------------------------------------------------------------------
Spaces(k) == [i \in 1..k |-> " "]

truncate(input, maxLength) ==
    IF Len(input) <= maxLength THEN input
    ELSE IF maxLength <= 1 THEN Slice0(input, maxLength)
    ELSE Slice0(input, maxLength - 1) \o <<".", ".", ".">>

\* pad: truncate, then String.prototype.padEnd
pad(input, maxLength) ==
    LET value == truncate(input, maxLength)
    IN IF Len(value) >= maxLength THEN value
       ELSE value \o Spaces(maxLength - Len(value))

\* Number.prototype.toFixed(2) of a finite number
ToFixed2(x) ==
    LET neg == x.n < 0
        a == IF neg THEN -x.n ELSE x.n
        cents == (200 * a + x.d) \div (2 * x.d)
        c == cents % 100
    IN (IF neg /\ cents > 0 THEN <<"-">> ELSE <<>>)
       \o NatToStr(cents \div 100) \o <<".">> \o <<DigitOf(c \div 10), DigitOf(c % 10)>>

formatPrice(value) ==
    IF value = Null \/ value = NaN THEN <<"-">>
    ELSE ToFixed2(value) \o <<" ", "E", "U", "R">>

formatPricePerLitre(value) ==
    IF value = Null \/ value = NaN THEN <<"-">>
    ELSE ToFixed2(value) \o <<" ", "E", "U", "R", "/", "L">>

\* formatDealsTable.headers, in the order of the columns
ColumnWidths == <<55, 14, 10, 10, 11, 21>>

\* formatDealsTable: the cells of the row of one deal, before they are
\* joined with " | " ("-" stands for the dash between the two dates)
RowCells(deal) ==
    LET desc == IF deal.description # <<>> THEN deal.description ELSE deal.productName
        url == IF deal.url # Null THEN deal.url.s ELSE <<"-">>
    IN << pad(desc, ColumnWidths[1]),
          pad(deal.store, ColumnWidths[2]),
          pad(deal.size, ColumnWidths[3]),
          pad(formatPrice(deal.price), ColumnWidths[4]),
          pad(formatPricePerLitre(deal.pricePerLitre), ColumnWidths[5]),
          pad(deal.validFrom \o <<" ", "-", " ">> \o deal.validTo, ColumnWidths[6]),
          url >>

HeaderCells ==
    << pad(<<"D", "e", "s", "c", "r", "i", "p", "t", "i", "o", "n">>, ColumnWidths[1]),
       pad(<<"S", "t", "o", "r", "e">>, ColumnWidths[2]),
       pad(<<"S", "i", "z", "e">>, ColumnWidths[3]),
       pad(<<"P", "r", "i", "c", "e">>, ColumnWidths[4]),
       pad(<<"E", "U", "R", "/", "L">>, ColumnWidths[5]),
       pad(<<"V", "a", "l", "i", "d">>, ColumnWidths[6]),
       <<"U", "R", "L">> >>

\* formatDealsTable: the lines of the table, each as its cells
formatDealsTable(deals) ==
    IF Len(deals) = 0 THEN << << <<"N", "o", " ", "m", "a", "t", "c", "h", "i", "n", "g", " ",
                                  "d", "e", "a", "l", "s", " ", "f", "o", "u", "n", "d", ".">> >> >>
    ELSE <<HeaderCells>> \o [i \in 1..Len(deals) |-> RowCells(deals[i])]

\* ------------------------------------------------------------------------
\* index.ts: the aggregation
\* ------------------------------------------------------------------------
RECURSIVE DedupeFrom(_, _)
DedupeFrom(deals, seen) ==
    IF deals = <<>> THEN <<>>
    ELSE IF Head(deals).id \in seen THEN DedupeFrom(Tail(deals), seen)
    ELSE <<Head(deals)>> \o DedupeFrom(Tail(deals), seen \cup {Head(deals).id})

\* mutation: seen is never filled
dedupeDeals_KeepAll(deals) == deals

dedupeDeals(deals) == DedupeFrom(deals, {})

\* stores is <<>> when the filter is undefined or empty
filterByStores(deals, stores) ==
    IF Len(stores) = 0 THEN deals
    ELSE LET wanted == [i \in 1..Len(stores) |-> ToLower(stores[i])]
         IN SelectSeq(deals, LAMBDA deal :
                \E i \in 1..Len(wanted) : Includes(ToLower(deal.store), wanted[i]))

\* mutation: no case for b without price per litre, null - as 0 in a - b
CompareDeals_NoNullB(a, b) ==
    IF a.pricePerLitre = Null THEN 1
    ELSE NumSignOfDiff(a.pricePerLitre,
                       IF b.pricePerLitre = Null THEN Int1(0) ELSE b.pricePerLitre)

\* the comparator handed to Array.prototype.sort (the sign of its result)
CompareDeals(a, b) ==
    IF a.pricePerLitre = Null THEN 1
    ELSE IF b.pricePerLitre = Null THEN -1
    ELSE NumSignOfDiff(a.pricePerLitre, b.pricePerLitre)

\* Array.prototype.sort of Node (V8): binary insertion into the sorted
\* prefix; every decision of the engine is "comparator result < 0"
RECURSIVE InsertionPoint(_, _, _, _)
InsertionPoint(sorted, pivot, left, right) ==
    IF left >= right THEN left
    ELSE LET mid == left + ((right - left) \div 2)
         IN IF CompareDeals(pivot, sorted[mid]) < 0
            THEN InsertionPoint(sorted, pivot, left, mid)
            ELSE InsertionPoint(sorted, pivot, mid + 1, right)

InsertAt(s, i, x) == SubSeq(s, 1, i - 1) \o <<x>> \o SubSeq(s, i, Len(s))

RECURSIVE SortFrom(_, _)
SortFrom(sorted, rest) ==
    IF rest = <<>> THEN sorted
    ELSE SortFrom(InsertAt(sorted,
                           InsertionPoint(sorted, Head(rest), 1, Len(sorted) + 1),
                           Head(rest)),
                  Tail(rest))

SortDeals(deals) == SortFrom(<<>>, deals)

\* mutation: slice(0, limit) before the sort
Aggregate_SliceFirst(allMapped, stores, limit) ==
    LET deduped == dedupeDeals(allMapped)
        filtered == filterByStores(deduped, stores)
    IN SortDeals(SubSeq(filtered, 1, Min(Len(filtered), limit.n \div limit.d)))

\* the tail of performSearch: dedupe, filter, sort, slice(0, limit)
Aggregate(allMapped, stores, limit) ==
    LET deduped == dedupeDeals(allMapped)
        filtered == filterByStores(deduped, stores)
        sorted == SortDeals(filtered)
    IN SubSeq(sorted, 1, Min(Len(sorted), limit.n \div limit.d))

MapResults(results, query) ==
    [i \in 1..Len(results) |-> mapOfferToDeal(results[i], query)]

\* ------------------------------------------------------------------------
\* Inputs: command lines, direct calls, files and upstream responses
\* ------------------------------------------------------------------------
Rep(c, k) == [i \in 1..k |-> c]

SeqsUpTo(S, k) == UNION {[1..m -> S] : m \in 0..k}

\* query tokens of the command line: empty, plain, with surrounding blanks
CliQueries == {<<>>, <<"a">>, <<" ", "b">>}
\* queries of a direct call of searchOffers
ApiQueries ==
    {<<>>, <<" ">>, <<"a", " ">>,
     Rep("a", MAX_QUERY_LENGTH), Rep("a", MAX_QUERY_LENGTH + 1)}
\* postal codes; <<>> on the command line is "--zip not given"
ZipInputs ==
    {<<"1", "2", "3">>, <<"1", "2", "3", "4">>,
     <<"1", "2", "3", "4", "5", "6">>, <<"1", "2", "3", "4", "5", "6", "7">>,
     <<"1", "2", "x", "4">>, <<"1", "2", "3", "4", "\n">>}
\* limits of a direct call
ApiLimits ==
    {Int1(0), Int1(1), Int1(MAX_LIMIT), Int1(MAX_LIMIT + 1), Num(3, 2), Int1(-1)}
\* the value of --limit on the command line; Null is "not given"
CliLimits ==
    {Null, Int1(0), Num(1, 2), Int1(1), Int1(50), Num(101, 2), Int1(51),
     Int1(MAX_LIMIT), Int1(250)}
StoreInputs == {<<>>, << <<"l", "i", "d", "l">> >>}

Argv(queries, zip, stores, limit, asJson) ==
    [queries |-> queries, zip |-> zip, stores |-> stores, limit |-> limit,
     asJson |-> asJson]

QueryA == <<"a">>
\* several query terms: distinct, an empty one last or first
MultiQueries ==
    {<<QueryA, <<" ", "b">> >>, <<QueryA, <<>> >>, << <<>>, QueryA>>}

CanonicalArgv == Argv(<<QueryA>>, <<>>, <<>>, Null, FALSE)

\* one query with each option, and several queries with the defaults
ArgvInputs ==
    {Argv(<<QueryA>>, <<>>, <<>>, l, FALSE) : l \in CliLimits}
    \cup {Argv(<<q>>, <<>>, <<>>, Null, FALSE) : q \in CliQueries}
    \cup {Argv(<<QueryA>>, z, <<>>, Null, FALSE) :
            z \in {<<"1", "2", "3">>, <<"8", "0", "3", "3", "1">>}}
    \cup {Argv(<<QueryA>>, <<>>, s, Null, j) : s \in StoreInputs, j \in BOOLEAN}
    \cup {Argv(<<QueryA>>, <<>>, << <<"l", "i", "d", "l">> >>, Int1(1), FALSE)}
    \cup {Argv(qs, <<>>, <<>>, Null, FALSE) : qs \in MultiQueries}

Tok0 == <<"k", "0">>
Tok1 == <<"k", "1">>
Tok2 == <<"k", "2">>
StartTime == 2 * CACHE_TTL_MS

FreshKeys == Keys(Tok0, Tok0, StartTime - 1)

\* the credential cache before the invocation
KeysFileInputs ==
    {Null,
     FreshKeys,
     Keys(Tok0, Tok0, StartTime - (CACHE_TTL_MS - 1)),
     Keys(Tok0, Tok0, StartTime - CACHE_TTL_MS),
     Keys(Tok0, Tok0, StartTime - (CACHE_TTL_MS + 1)),
     Keys(Tok0, <<>>, StartTime - 1),
     Keys(<<>>, Tok0, StartTime - 1),
     Keys(Tok0, Tok0, 0)}

ConfigFileInputs ==
    {Null,
     ConfigFile(Str(<<" ", "1", "2", "3", "4">>), List(<< <<"R", "E", "W", "E", " ">>, <<" ">> >>)),
     ConfigFile(Null, Null)}

HomeOk(html) == [ok |-> TRUE, status |-> 200, html |-> html]
HomeFail(status) == [ok |-> FALSE, status |-> status, html |-> <<>>]
\* responses of the homepage: a page whose first complete block holds the
\* keys, a page without a complete block, a refused request
HomeResponses ==
    {HomeOk(<<BlockMalformed, BlockEmpty, BlockJson(Tok2, <<>>), BlockJson(Tok1, Tok2)>>),
     HomeOk(<<BlockMalformed, BlockJson(<<>>, Tok1)>>),
     HomeFail(403)}

O(id, store, price, volume) ==
    Offer(id, Str(<<"p">>), store, price, Null, Null, volume, Null, Null)
Lidl == Str(<<"L", "i", "d", "l">>)
Rewe == Str(<<"R", "E", "W", "E">>)
\* offers of the search responses: the id 1 as a number and as a text with
\* other content, an offer without id, two offers without price per litre
OfferInputs ==
    {O(Int1(1), Lidl, Int1(2), Int1(1)),
     O(Str(<<"1">>), Rewe, Null, Int1(1)),
     O(Int1(2), Lidl, Int1(1), Int1(2)),
     O(Null, Rewe, Int1(1), Null)}

\* one offer under the id 1 as a number and as a text with a blank in front
PaddedIdOffers ==
    <<O(Int1(1), Lidl, Int1(2), Int1(1)), O(Str(<<" ", "1">>), Lidl, Int1(2), Int1(1))>>

JsonObject(results, totalResults) ==
    [t |-> "object", results |-> results, totalResults |-> totalResults]
SearchOk(json) == [ok |-> TRUE, status |-> 200, body |-> <<>>, json |-> json]
SearchFail(status, body) ==
    [ok |-> FALSE, status |-> status, body |-> body, json |-> [t |-> "badjson"]]
ResultLists == {List(r) : r \in SeqsUpTo(OfferInputs, MaxOffers)}
SearchResponses ==
    {SearchFail(401, <<>>), SearchFail(403, <<"n", "o">>), SearchFail(500, <<>>),
     SearchFail(500, <<"g", "o", "t", " ">> \o Http401),
     SearchOk([t |-> "badjson"]), SearchOk([t |-> "null"]),
     SearchOk(JsonObject(Null, Int1(1)))}
    \cup {SearchOk(JsonObject(r, Int1(Len(r.items) + 5))) : r \in ResultLists}
    \cup {SearchOk(JsonObject(List(<<>>), Null))}
    \cup {SearchOk(JsonObject(List(PaddedIdOffers), Int1(2)))}

\* ------------------------------------------------------------------------
\* The state of one invocation
\* ------------------------------------------------------------------------
VARIABLES
    mode,             \* "cli": node index.js search ...; "api": searchOffers called directly
    pc,               \* "main", "call", "keys", "home", "search", "done"
    argv,             \* the command line (cli) or the arguments of the call (api)
    params,           \* the params of performSearch: queries, zip, stores, limit
    configFile,       \* ~/.supermarket-deals/config.json
    keysFile,         \* ~/.supermarket-deals/keys.json
    now,              \* Date.now()
    ticks,            \* number of clock steps taken
    call,             \* the running searchOffers call
    log,              \* the reads of keys.json and the requests sent, with their results, in order
    failures,         \* number of failing responses of the upstream so far
    allMapped,        \* performSearch.allMapped
    totalRawResults,  \* performSearch.totalRawResults
    out               \* stdout, stderr, the exit code, the outcome of the call

vars == <<mode, pc, argv, params, configFile, keysFile, now, ticks, call, log,
          failures, allMapped, totalRawResults, out>>

NoCall == [qi |-> 0, attempt |-> 0, homeTry |-> 0, firstError |-> <<>>, keys |-> Null]
NoOut == [stdout |-> <<>>, stderr |-> <<>>, exitCode |-> -1, outcome |-> Null,
          deals |-> <<>>]
NoParams == [queries |-> <<>>, zip |-> <<>>, stores |-> <<>>, limit |-> Int1(0)]

InitCommon ==
    /\ now = StartTime
    /\ ticks = 0
    /\ log = <<>>
    /\ failures = 0
    /\ allMapped = <<>>
    /\ totalRawResults = Int1(0)
    /\ out = NoOut

CanonicalCall == Argv(<<QueryA>>, <<"8", "0", "3", "3", "1">>, <<>>, Int1(1), FALSE)
\* arguments of a direct call of searchOffers(query, zipCode, limit)
ApiCalls ==
    {Argv(<<q>>, z, <<>>, l, FALSE) : q \in ApiQueries, z \in ZipInputs, l \in ApiLimits}
    \cup {CanonicalCall}

InitCli ==
    /\ mode = "cli"
    /\ pc = "main"
    /\ call = NoCall
    /\ argv \in ArgvInputs
    /\ params = NoParams
    /\ \/ configFile = Null /\ keysFile = FreshKeys
       \/ argv = CanonicalArgv /\ configFile \in ConfigFileInputs /\ keysFile = FreshKeys
       \/ argv = CanonicalArgv /\ configFile = Null /\ keysFile \in KeysFileInputs

InitApi ==
    /\ mode = "api"
    /\ pc = "call"
    /\ call = [NoCall EXCEPT !.qi = 1]
    /\ argv \in ApiCalls
    /\ params = [queries |-> argv.queries, zip |-> argv.zip, stores |-> <<>>,
                 limit |-> argv.limit]
    /\ configFile = Null
    /\ \/ keysFile = FreshKeys
       \/ argv = CanonicalCall /\ keysFile \in KeysFileInputs

Init == InitCommon /\ (InitCli \/ InitApi)

\* ------------------------------------------------------------------------
\* Steps
\* ------------------------------------------------------------------------
\* mutation: the deals mapped so far are printed before the error
Throw_PartialOutput(msg) ==
    /\ pc' = "done"
    /\ out' = IF mode = "cli"
              THEN [out EXCEPT !.stdout = Append(@, [t |-> "table", results |-> allMapped]),
                               !.stderr = Append(@, ErrorPrefix \o msg),
                               !.exitCode = 1]
              ELSE [out EXCEPT !.outcome = [t |-> "err", msg |-> msg]]

\* An error leaves searchOffers: main's catch block prints it and exits
\* with 1 (cli), or the caller of searchOffers receives it (api).
Throw(msg) ==
    /\ pc' = "done"
    /\ out' = IF mode = "cli"
              THEN [out EXCEPT !.stderr = Append(@, ErrorPrefix \o msg),
                               !.exitCode = 1]
              ELSE [out EXCEPT !.outcome = [t |-> "err", msg |-> msg]]

\* mutation: the retried attempt is retried as well
MayRetry_EveryAttempt(attempt, msg) == IsAuthFailure(msg)

\* the catch block of searchOffers: run(true) after an auth failure of
\* run(false), else the error propagates
MayRetry(attempt, msg) == attempt = 1 /\ IsAuthFailure(msg)

RunFailed(msg) ==
    IF MayRetry(call.attempt, msg)
    THEN /\ pc' = "home"
         /\ call' = [call EXCEPT !.attempt = 2, !.homeTry = 1]
         /\ UNCHANGED out
    ELSE /\ Throw(msg)
         /\ UNCHANGED call

\* parseArgs: the limit of the command line
ParseLimit(tok) ==
    IF tok = Null THEN Int1(DEFAULT_LIMIT)
    ELSE IF tok.n <= 0 THEN Null
    ELSE IF NumLess(Floor(tok), Int1(100)) THEN Floor(tok) ELSE Int1(100)

\* the limit performSearch hands to searchOffers
FetchLimit(limit) == NumMul(limit, Int1(2))

CallLimit == IF mode = "cli" THEN FetchLimit(params.limit) ELSE params.limit

\* main: parseArgs, then runSearch up to the first call of searchOffers
MainSearch ==
    /\ pc = "main"
    /\ LET limit == ParseLimit(argv.limit)
       IN IF limit = Null
          THEN /\ Throw(MsgLimitOption)
               /\ UNCHANGED <<params, configFile, call>>
          ELSE LET loaded == loadConfig(configFile)
                   cfg == loaded.config
               IN IF loaded.t = "err"
                  THEN /\ Throw(loaded.msg)
                       /\ UNCHANGED <<params, configFile, call>>
                  ELSE
                  /\ configFile' = loaded.file
                  /\ params' = [queries |-> TrimAll(argv.queries),
                                zip |-> IF argv.zip # <<>> THEN argv.zip
                                        ELSE cfg.defaultZip,
                                stores |-> IF Len(argv.stores) > 0 THEN argv.stores
                                           ELSE cfg.defaultStores,
                                limit |-> limit]
                  /\ call' = [NoCall EXCEPT !.qi = 1]
                  /\ pc' = "call"
                  /\ UNCHANGED out
    /\ UNCHANGED <<mode, argv, keysFile, now, ticks, log, failures, allMapped,
                   totalRawResults>>

\* searchOffers: validateInputs
SearchOffersValidate ==
    /\ pc = "call"
    /\ LET err == validateInputs(params.queries[call.qi], params.zip, CallLimit)
       IN IF err # Null
          THEN Throw(err.s) /\ UNCHANGED call
          ELSE /\ pc' = "keys"
               /\ call' = [call EXCEPT !.attempt = 1, !.homeTry = 0,
                                       !.firstError = <<>>, !.keys = Null]
               /\ UNCHANGED out
    /\ UNCHANGED <<mode, argv, params, configFile, keysFile, now, ticks, log,
                   failures, allMapped, totalRawResults>>

\* log entry: keys.json read, with the content and the time of the read
CacheRead(hit) ==
    [kind |-> "cache", qi |-> call.qi, attempt |-> call.attempt,
     file |-> keysFile, at |-> now, hit |-> hit]

\* getKeys(false): the cached pair, else on to the homepage
GetKeysCached ==
    /\ pc = "keys"
    /\ LET cached == readCachedKeys(keysFile, now)
       IN /\ log' = Append(log, CacheRead(cached # Null))
          /\ IF cached # Null
             THEN pc' = "search" /\ call' = [call EXCEPT !.keys = cached]
             ELSE pc' = "home" /\ call' = [call EXCEPT !.homeTry = 1]
    /\ UNCHANGED <<mode, argv, params, configFile, keysFile, now, ticks, failures,
                   allMapped, totalRawResults, out>>

\* mutation: the error of the second fetch is thrown
GetKeysError_Second(firstError, secondError) == secondError

\* getKeys: what it throws after both fetchFreshKeys failed
GetKeysError(firstError, secondError) == firstError

\* log entry: homepage request with its response: the status, the stamped
\* pair scraped (else Null), the message of the error of fetchFreshKeys
\* (else <<>>) and the message of the error getKeys throws on it (else <<>>)
HomeRequest(resp, r) ==
    [kind |-> "home", qi |-> call.qi, attempt |-> call.attempt,
     status |-> resp.status,
     keys |-> IF r.t = "ok" THEN r.keys ELSE Null,
     err |-> IF r.t = "ok" THEN <<>> ELSE r.msg,
     thrown |-> IF r.t = "ok" \/ call.homeTry = 1 THEN <<>>
                ELSE GetKeysError(call.firstError, r.msg)]

\* getKeys: one fetchFreshKeys, the first or the second of this getKeys
FetchFreshKeys ==
    /\ pc = "home"
    /\ \E resp \in HomeResponses :
         LET r == fetchFreshKeys(resp, now)
         IN /\ log' = Append(log, HomeRequest(resp, r))
            /\ IF r.t = "ok"
               THEN /\ keysFile' = r.keys
                    /\ call' = [call EXCEPT !.keys = r.keys]
                    /\ pc' = "search"
                    /\ UNCHANGED <<out, failures>>
               ELSE /\ failures < MaxFailures
                    /\ failures' = failures + 1
                    /\ UNCHANGED keysFile
                    /\ IF call.homeTry = 1
                       THEN /\ call' = [call EXCEPT !.homeTry = 2, !.firstError = r.msg]
                            /\ pc' = "home"
                            /\ UNCHANGED out
                       ELSE RunFailed(GetKeysError(call.firstError, r.msg))
    /\ UNCHANGED <<mode, argv, params, configFile, now, ticks, allMapped,
                   totalRawResults>>

\* log entry: search request with the status and body of its response, the
\* message of the error run throws on it (else <<>>) and the totalResults
\* run returns (Null when it throws)
SearchRequestOf(c, resp, r) ==
    [kind |-> "search", qi |-> c.qi, attempt |-> c.attempt,
     query |-> params.queries[c.qi], zip |-> params.zip, limit |-> CallLimit,
     apiKey |-> c.keys.apiKey, clientKey |-> c.keys.clientKey,
     status |-> resp.status, body |-> resp.body,
     err |-> IF r.t = "err" THEN r.msg ELSE <<>>,
     totalResults |-> IF r.t = "err" THEN Null ELSE r.totalResults]

\* runSearch after performSearch returned: what is printed
Printed(deals, total) ==
    IF argv.asJson
    THEN << [t |-> "json", queries |-> params.queries, zip |-> params.zip,
             stores |-> params.stores, totalRawResults |-> total,
             resultCount |-> Len(deals), results |-> deals] >>
    ELSE << [t |-> "queries", queries |-> params.queries, zip |-> params.zip,
             stores |-> params.stores],
            [t |-> "found", resultCount |-> Len(deals), totalRawResults |-> total],
            [t |-> "table", results |-> deals] >>

\* searchOffers.run: the search request and everything that follows its
\* response without another await
SearchRequest ==
    /\ pc = "search"
    /\ \E resp \in SearchResponses :
         LET r == runResponse(resp)
         IN /\ log' = Append(log, SearchRequestOf(call, resp, r))
            /\ IF r.t = "err"
               THEN /\ failures < MaxFailures
                    /\ failures' = failures + 1
                    /\ RunFailed(r.msg)
                    /\ UNCHANGED <<allMapped, totalRawResults>>
               ELSE IF Len(allMapped) + Len(r.results) > MaxOffers
               THEN FALSE
               ELSE IF mode = "api"
               THEN /\ pc' = "done"
                    /\ out' = [out EXCEPT !.outcome = r]
                    /\ UNCHANGED <<call, failures, allMapped, totalRawResults>>
               ELSE LET total == NumAdd(totalRawResults, r.totalResults)
                        mapped == allMapped \o MapResults(r.results, params.queries[call.qi])
                    IN /\ totalRawResults' = total
                       /\ allMapped' = mapped
                       /\ UNCHANGED failures
                       /\ IF call.qi < Len(params.queries)
                          THEN /\ pc' = "call"
                               /\ call' = [NoCall EXCEPT !.qi = call.qi + 1]
                               /\ UNCHANGED out
                          ELSE LET deals == Aggregate(mapped, params.stores, params.limit)
                               IN /\ pc' = "done"
                                  /\ out' = [out EXCEPT !.deals = deals,
                                                        !.stdout = @ \o Printed(deals, total),
                                                        !.exitCode = 0]
                                  /\ UNCHANGED call
    /\ UNCHANGED <<mode, argv, params, configFile, keysFile, now, ticks>>

\* the clock moves on between the read of the cache at StartTime and a
\* scrape (Date.now() is read by readCachedKeys and fetchFreshKeys only)
Tick ==
    /\ pc = "home"
    /\ ticks < MaxTicks
    /\ ticks' = ticks + 1
    /\ now' = now + 1
    /\ UNCHANGED <<mode, pc, argv, params, configFile, keysFile, call, log,
                   failures, allMapped, totalRawResults, out>>

\* ids of offers: absent, numbers, texts of digits, blanks and other
\* characters
IdInputs ==
    {Null, Int1(0), Int1(7), Int1(21916812), Num(3, 2), Int1(-1),
     Str(<<"4", "\n">>),
     Str(<<"2", "1", "9", "1", "6", "8", "1", "2">>),
     Str(<<"2", "1", "9", "1", "6", "8", "1", "2", ";", " ", "D", "R", "O", "P">>)}
    \cup {Str(s) : s \in SeqsUpTo({"4", " ", ";"}, MaxIdLen)}

DealInputs ==
    {[offer |-> O(id, store, Int1(1), Int1(1)), query |-> QueryA] :
        id \in IdInputs, store \in {Lidl, Null}}

\* mapOfferToDeal on its own: the offer is in argv, the deal in out.deals
InitDeal ==
    /\ InitCommon
    /\ mode = "deal"
    /\ pc = "map"
    /\ argv \in DealInputs
    /\ params = NoParams
    /\ call = NoCall
    /\ configFile = Null
    /\ keysFile = Null

MapOffer ==
    /\ pc = "map"
    /\ pc' = "done"
    /\ out' = [out EXCEPT !.deals = <<mapOfferToDeal(argv.offer, argv.query)>>]
    /\ UNCHANGED <<mode, argv, params, configFile, keysFile, now, ticks, call, log,
                   failures, allMapped, totalRawResults>>

NextDeal == MapOffer

SpecDeal == InitDeal /\ [][NextDeal]_vars

\* offers for the price per litre: every field absent, a text or a number,
\* the numbers with zero, a negative, a fraction and the values that are not
\* finite
UnitInputs == {Null, Str(<<"l">>), Str(<<"L">>), Str(<<"m", "l">>), Str(<<>>)}
ReferencePriceInputs == {Null, Num(13, 20), NaN, Str(<<"1">>)}
PriceInputs == {Null, Int1(0), Int1(1), Num(129, 100), Infinity, NaN, Str(<<"1">>)}
VolumeInputs == {Null, Int1(0), Int1(2), Num(1, 2), Int1(-1), Infinity, NaN, Str(<<"2">>)}
QuantityInputs == {Null, Int1(0), Int1(1), Int1(6), Int1(-2), Infinity, Str(<<"6">>)}
PriceOffers ==
    {Offer(Null, Null, Null, p, r, Null, v, q, u) :
        p \in PriceInputs, r \in ReferencePriceInputs, v \in VolumeInputs,
        q \in QuantityInputs, u \in UnitInputs}

\* computePricePerLitre on its own: the offer is in argv, the result in
\* out.outcome
InitPrice ==
    /\ InitCommon
    /\ mode = "price"
    /\ pc = "compute"
    /\ argv \in {[offer |-> o] : o \in PriceOffers}
    /\ params = NoParams
    /\ call = NoCall
    /\ configFile = Null
    /\ keysFile = Null

ComputePrice ==
    /\ pc = "compute"
    /\ pc' = "done"
    /\ out' = [out EXCEPT !.outcome = computePricePerLitre(argv.offer)]
    /\ UNCHANGED <<mode, argv, params, configFile, keysFile, now, ticks, call, log,
                   failures, allMapped, totalRawResults>>

NextPrice == ComputePrice

SpecPrice == InitPrice /\ [][NextPrice]_vars

\* deals for the table: one field at a time takes texts from empty to
\* MaxOverflow characters more than its column
DisplayDeal(description, productName, store, size, price, pricePerLitre, validFrom, validTo, url) ==
    [id |-> <<"1">>, productName |-> productName, description |-> description,
     store |-> store, price |-> price, pricePerLitre |-> pricePerLitre,
     validFrom |-> validFrom, validTo |-> validTo, sourceQuery |-> QueryA,
     size |-> size, url |-> url]
Day1 == <<"2", "0", "2", "6", "-", "0", "1", "-", "0", "5">>
Day2 == <<"2", "0", "2", "6", "-", "0", "1", "-", "1", "0">>
TextsUpTo(c, k) == {Rep(c, n) : n \in 0..k}
TableDeals ==
    {DisplayDeal(d, <<"p">>, <<"s">>, <<"1", "L">>, Int1(1), Int1(1), <<"-">>, <<"-">>, Null) :
        d \in TextsUpTo("d", ColumnWidths[1] + MaxOverflow)}
    \cup {DisplayDeal(<<>>, p, <<"s">>, <<"1", "L">>, Null, Null, <<"-">>, <<"-">>, Null) :
        p \in TextsUpTo("p", ColumnWidths[1] + MaxOverflow) \ {<<>>}}
    \cup {DisplayDeal(<<"d">>, <<"p">>, s, <<"1", "L">>, Int1(1), Null, <<"-">>, <<"-">>,
                       Str(OffersUrlPrefix \o <<"1">>)) :
        s \in TextsUpTo("s", ColumnWidths[2] + MaxOverflow) \ {<<>>}}
    \cup {DisplayDeal(<<"d">>, <<"p">>, <<"s">>, z, Int1(1), Int1(1), <<"-">>, <<"-">>, Null) :
        z \in TextsUpTo("9", ColumnWidths[3] + MaxOverflow) \ {<<>>}}
    \cup {DisplayDeal(<<"d">>, <<"p">>, <<"s">>, <<"-">>, x, y, <<"-">>, <<"-">>, Null) :
        x \in {Null, Int1(0), Num(129, 100), Num(1999, 2), Int1(12345), Int1(123456)},
        y \in {Null, Num(1, 200), Num(43, 100), Int1(1234), Int1(12345)}}
    \cup {DisplayDeal(<<"d">>, <<"p">>, <<"s">>, <<"-">>, Null, Null, f, t, Null) :
        f \in {<<"-">>, Day1}, t \in {<<"-">>, Day2}}

\* formatDealsTable on its own: the deals are in argv, the lines in
\* out.stdout
InitTable ==
    /\ InitCommon
    /\ mode = "table"
    /\ pc = "format"
    /\ argv \in {[deals |-> <<>>]} \cup {[deals |-> <<d>>] : d \in TableDeals}
    /\ params = NoParams
    /\ call = NoCall
    /\ configFile = Null
    /\ keysFile = Null

FormatTable ==
    /\ pc = "format"
    /\ pc' = "done"
    /\ out' = [out EXCEPT !.stdout = formatDealsTable(argv.deals)]
    /\ UNCHANGED <<mode, argv, params, configFile, keysFile, now, ticks, call, log,
                   failures, allMapped, totalRawResults>>

NextTable == FormatTable

SpecTable == InitTable /\ [][NextTable]_vars

\* ------------------------------------------------------------------------
\* Invocations in a row: config, config set, search
\* ------------------------------------------------------------------------
TokSet == <<"s", "e", "t">>
KeyZip == <<"z", "i", "p">>
KeyStores == <<"s", "t", "o", "r", "e", "s">>
KeyReset == <<"r", "e", "s", "e", "t">>

\* Array.prototype.join(" ")
RECURSIVE JoinSpaces(_)
JoinSpaces(tokens) ==
    IF Len(tokens) = 0 THEN <<>>
    ELSE IF Len(tokens) = 1 THEN tokens[1]
    ELSE tokens[1] \o <<" ">> \o JoinSpaces(Tail(tokens))

\* parseArgs of "config" with the tokens after it: configSet (Null when
\* undefined) or the usage error
ParseConfigArgs(rest) ==
    IF Len(rest) >= 1 /\ rest[1] = TokSet
    THEN LET key == IF Len(rest) >= 2 THEN rest[2] ELSE <<>>
             value == Trim(JoinSpaces(SubSeq(rest, 3, Len(rest))))
         IN IF key = <<>> \/ value = <<>>
            THEN [t |-> "err", msg |-> MsgConfigUsage]
            ELSE [t |-> "ok", configSet |-> [t |-> "set", key |-> key, value |-> value]]
    ELSE [t |-> "ok", configSet |-> Null]

\* what one invocation did: the preferences loadConfig returned (Null when
\* it was not called or threw), the file left behind, the preferences
\* printed (Null when none) and the message of the error thrown (<<>> when
\* none)
Ran(loadCalled, loaded, file, printed, err) ==
    [loadCalled |-> loadCalled, loaded |-> loaded, file |-> file,
     printed |-> printed, err |-> err]

\* runConfig after loadConfig returned cfg: the preferences to save, or the
\* error thrown (configSet is defined)
ConfigAfterSet(cfg, configSet) ==
    IF configSet.key = KeyZip
    THEN [t |-> "ok", cfg |-> [cfg EXCEPT !.defaultZip = Trim(configSet.value)]]
    ELSE IF configSet.key = KeyStores
    THEN LET parsed == parseCsvStores(configSet.value)
         IN IF parsed = Null THEN [t |-> "err", msg |-> MsgStoresList]
            ELSE [t |-> "ok", cfg |-> [cfg EXCEPT !.defaultStores = parsed.items]]
    ELSE IF configSet.key = KeyReset
    THEN [t |-> "ok", cfg |-> DEFAULT_CONFIG]
    ELSE [t |-> "err", msg |-> MsgSupportedKeys]

runConfig(configSet, file) ==
    LET loaded == loadConfig(file)
    IN IF loaded.t = "err" THEN Ran(TRUE, Null, loaded.file, Null, loaded.msg)
       ELSE IF configSet = Null
       THEN Ran(TRUE, loaded.config, loaded.file, loaded.config, <<>>)
       ELSE LET set == ConfigAfterSet(loaded.config, configSet)
            IN IF set.t = "err"
               THEN Ran(TRUE, loaded.config, loaded.file, Null, set.msg)
               ELSE Ran(TRUE, loaded.config, saveConfig(set.cfg), set.cfg, <<>>)

\* main with the command "config"
MainConfig(rest, file) ==
    LET args == ParseConfigArgs(rest)
    IN IF args.t = "err" THEN Ran(FALSE, Null, file, Null, args.msg)
       ELSE runConfig(args.configSet, file)

\* main with the command "search", one query and the default limit; the
\* requests of the search either all succeed or one of them fails
MainSessionSearch(args, file, upstreamOk) ==
    LET loaded == loadConfig(file)
    IN IF loaded.t = "err" THEN Ran(TRUE, Null, loaded.file, Null, loaded.msg)
       ELSE LET zip == IF args.zip # <<>> THEN args.zip ELSE loaded.config.defaultZip
                err == validateInputs(Trim(args.queries[1]), zip,
                                      FetchLimit(ParseLimit(args.limit)))
            IN IF err # Null THEN Ran(TRUE, loaded.config, loaded.file, Null, err.s)
               ELSE IF upstreamOk THEN Ran(TRUE, loaded.config, loaded.file, Null, <<>>)
               ELSE Ran(TRUE, loaded.config, loaded.file, Null,
                        SearchFailedMessage(500, <<>>))

\* the tokens after "config" on the command line
ConfigRests ==
    {<<>>,
     <<TokSet>>,
     <<TokSet, KeyZip>>,
     <<TokSet, KeyZip, <<"8", "0", "3", "3", "1">> >>,
     <<TokSet, KeyZip, <<" ", "1", "2", "3", "4", " ">> >>,
     <<TokSet, KeyZip, <<"a", "b", "c">> >>,
     <<TokSet, KeyStores, <<"L", "i", "d", "l", ",", " ", "R", "E", "W", "E", ",">> >>,
     <<TokSet, KeyStores, <<",", " ", ",">> >>,
     <<TokSet, KeyReset>>,
     <<TokSet, KeyReset, <<"x">>, <<"y">> >>,
     <<TokSet, <<"c", "o", "l", "o", "u", "r">>, <<"r", "e", "d">> >>}

SessionSearches ==
    {Argv(<<QueryA>>, z, <<>>, Null, FALSE) : z \in {<<>>, <<"1", "2", "3", "4">>}}

\* the preference file before the first invocation
SessionFiles ==
    {Null, Unwritable,
     ConfigFile(Str(<<" ", "1", "2", "3", "4">>), List(<< <<"R", "E", "W", "E", " ">>, <<" ">> >>)),
     ConfigFile(Null, Null),
     ConfigFile(Int1(80331), Str(<<"L", "i", "d", "l">>)),
     ConfigFile(Str(<<"8", "0", "3", "3", "1">>), List(<< <<" ">> >>)),
     ConfigFile(Str(<<" ">>), List(<<>>))}

NoCommand == [command |-> "none"]

InitSession ==
    /\ InitCommon
    /\ mode = "session"
    /\ pc = "prompt"
    /\ argv = NoCommand
    /\ params = NoParams
    /\ call = NoCall
    /\ configFile \in SessionFiles
    /\ keysFile = FreshKeys

\* log entry: one invocation with the preference file before and after it
Invocation(command, ran) ==
    [kind |-> "invocation", command |-> command, before |-> configFile,
     loadCalled |-> ran.loadCalled, loaded |-> ran.loaded, after |-> ran.file,
     printed |-> ran.printed, err |-> ran.err,
     exitCode |-> IF ran.err = <<>> THEN 0 ELSE 1]

\* one invocation from the first to the last step of main
Invoke(command, ran) ==
    /\ pc = "prompt"
    /\ Len(log) < MaxInvocations
    /\ argv' = command
    /\ configFile' = ran.file
    /\ log' = Append(log, Invocation(command, ran))
    /\ out' = [NoOut EXCEPT !.stdout = IF ran.printed = Null THEN <<>> ELSE <<ran.printed>>,
                            !.stderr = IF ran.err = <<>> THEN <<>>
                                       ELSE <<ErrorPrefix \o ran.err>>,
                            !.exitCode = IF ran.err = <<>> THEN 0 ELSE 1]
    /\ UNCHANGED <<mode, pc, params, keysFile, now, ticks, call, failures,
                   allMapped, totalRawResults>>

ConfigInvocation ==
    \E rest \in ConfigRests :
        Invoke([command |-> "config", rest |-> rest], MainConfig(rest, configFile))

SearchInvocation ==
    \E args \in SessionSearches, upstreamOk \in BOOLEAN :
        Invoke([command |-> "search", args |-> args],
               MainSessionSearch(args, configFile, upstreamOk))

NextSession ==
    \/ ConfigInvocation
    \/ SearchInvocation

SpecSession == InitSession /\ [][NextSession]_vars

Next ==
    \/ MainSearch
    \/ SearchOffersValidate
    \/ GetKeysCached
    \/ FetchFreshKeys
    \/ SearchRequest
    \/ Tick

Spec == Init /\ [][Next]_vars

\* ------------------------------------------------------------------------
\* Properties
\* ------------------------------------------------------------------------
Done == pc = "done"
Failed(msg) ==
    /\ Done
    /\ IF mode = "cli"
       THEN out.exitCode = 1 /\ out.stderr = <<ErrorPrefix \o msg>>
       ELSE out.outcome = [t |-> "err", msg |-> msg]

\* the text "Limit must be an integer between 1 and 100."
LimitErrorText == MsgLimitPre \o <<"1", "0", "0", ".">>

\* C1: for every result limit from 1 to 100 the call of the fetcher made by
\* the aggregation (with limit x 2) is never rejected with the error
\* "Limit must be an integer between 1 and 100."
C1_LimitUpTo100Accepted ==
    (/\ mode = "cli"
     /\ ~NumLess(params.limit, Int1(1))
     /\ ~NumLess(Int1(100), params.limit))
    => ~Failed(LimitErrorText)

\* the accepted inputs in the words of the contract of searchOffers
C2_InputsValid(query, zipCode, limit) ==
    /\ \E i \in 1..Len(query) : query[i] \notin WhiteChars
    /\ Len(query) <= 100
    /\ Len(zipCode) \in 4..6
    /\ \A i \in 1..Len(zipCode) : zipCode[i] \in DigitChars
    /\ limit.n % limit.d = 0
    /\ (limit.n \div limit.d) \in 1..100

C2_IsValidationError(msg) ==
    \/ msg = MsgQueryEmpty
    \/ StartsWith(msg, MsgQueryTooLongPre)
    \/ StartsWith(msg, MsgInvalidZipPre)
    \/ StartsWith(msg, MsgLimitPre)

\* C2: a direct call searchOffers(query, zipCode, limit) ends with a
\* validation error, with no read of the credential cache and no request
\* before it, exactly when the query is blank or longer than 100 characters,
\* the postal code is not 4 to 6 digits, or the limit is not an integer in
\* 1..100; every other call goes on to credential resolution (the read of
\* the cache is its first step) and never ends with a validation error.
C2_ValidationExact ==
    (mode = "api" /\ pc # "call") =>
        LET rejected == /\ Done
                        /\ out.outcome.t = "err"
                        /\ C2_IsValidationError(out.outcome.msg)
        IN IF C2_InputsValid(argv.queries[1], argv.zip, argv.limit)
           THEN /\ ~rejected
                /\ IF log = <<>> THEN pc = "keys" ELSE log[1].kind = "cache"
           ELSE rejected /\ log = <<>>

\* C2 witness: the limit 1.5 is rejected before any read or request
C2_Witness ==
    /\ mode = "api"
    /\ argv.limit = Num(3, 2)
    /\ Failed(LimitErrorText)
    /\ log = <<>>

IsHome(i) == log[i].kind = "home"
IsSearch(i) == log[i].kind = "search"
IsCache(i) == log[i].kind = "cache"
SameAttempt(i, j) == log[i].qi = log[j].qi /\ log[i].attempt = log[j].attempt
SentKeysOf(i, keys) ==
    log[i].apiKey = keys.apiKey /\ log[i].clientKey = keys.clientKey

\* C3: when the first search request of a call is answered with HTTP 401 or
\* 403, the call goes on with a homepage request of a second attempt (the
\* cache is read in first attempts only); the search request of a second
\* attempt follows a successful scrape of that attempt and carries the
\* scraped pair; a failure of the second attempt ends the call with that
\* error; no call sends more than two search requests.
C3_RetryOnceWithRefresh ==
    \A i \in DOMAIN log :
        /\ IsCache(i) => log[i].attempt = 1
        /\ IsSearch(i) =>
            /\ (log[i].attempt = 1 /\ log[i].status \in {401, 403}) =>
                  IF i = Len(log)
                  THEN pc = "home" /\ call.attempt = 2 /\ call.qi = log[i].qi
                  ELSE IsHome(i + 1) /\ log[i + 1].qi = log[i].qi
                       /\ log[i + 1].attempt = 2
            /\ log[i].attempt = 2 =>
                  /\ i > 1 /\ IsHome(i - 1) /\ SameAttempt(i - 1, i)
                  /\ log[i - 1].keys # Null
                  /\ SentKeysOf(i, log[i - 1].keys)
                  /\ log[i].err # <<>> => (i = Len(log) /\ Failed(log[i].err))
            /\ Cardinality({j \in DOMAIN log :
                               IsSearch(j) /\ log[j].qi = log[i].qi}) <= 2

\* C3 witness: 401, a scrape of new tokens, a second request with them that
\* is answered 403, and the call has ended with that error
C3_Witness ==
    /\ Done
    /\ Len(log) >= 3
    /\ LET n == Len(log)
       IN /\ IsSearch(n) /\ log[n].attempt = 2 /\ log[n].status = 403
          /\ IsHome(n - 1) /\ IsSearch(n - 2)
          /\ log[n - 2].status = 401 /\ log[n - 2].attempt = 1
          /\ log[n].apiKey # log[n - 2].apiKey
          /\ Failed(log[n].err)

\* C4: a first search attempt that fails otherwise than by an HTTP 401 or
\* 403 status of the search endpoint is not retried: its request is the
\* last of the invocation and the call ends with its error.
C4_OtherFailuresNotRetried ==
    \A i \in DOMAIN log :
        (/\ IsSearch(i)
         /\ log[i].attempt = 1
         /\ log[i].err # <<>>
         /\ log[i].status \notin {401, 403})
        => (i = Len(log) /\ Failed(log[i].err))

CacheHolds(file) == file # Null /\ file.apiKey # <<>> /\ file.clientKey # <<>>

\* C5 as stated: the cached pair is returned exactly when the file holds
\* both tokens and now - fetchedAt is strictly less than 6 hours.
C5_CacheReusedBelowTTL ==
    \A i \in DOMAIN log :
        IsCache(i) =>
            (log[i].hit <=>
                (/\ CacheHolds(log[i].file)
                 /\ log[i].at - log[i].file.fetchedAt < 6 * 60 * 60 * 1000))

\* C5 amended: the cached pair is returned, with no homepage request, exactly
\* when the file holds both tokens and a non-zero fetchedAt and
\* now - fetchedAt is at most 6 hours; otherwise a homepage request follows.
C5_CacheReusedUpToTTL ==
    \A i \in DOMAIN log :
        IsCache(i) =>
            /\ log[i].hit <=>
                (/\ CacheHolds(log[i].file)
                 /\ log[i].file.fetchedAt # 0
                 /\ log[i].at - log[i].file.fetchedAt <= 6 * 60 * 60 * 1000)
            /\ IF log[i].hit
               THEN IF i = Len(log)
                    THEN pc = "search" /\ call.keys = log[i].file
                    ELSE IsSearch(i + 1) /\ SameAttempt(i, i + 1)
                         /\ SentKeysOf(i + 1, log[i].file)
               ELSE IF i = Len(log)
                    THEN pc = "home"
                    ELSE IsHome(i + 1) /\ SameAttempt(i, i + 1)

\* C5 witness: a pair aged exactly 6 hours was reused for the search request
C5_Witness ==
    \E i \in DOMAIN log :
        /\ IsCache(i) /\ log[i].hit
        /\ log[i].at - log[i].file.fetchedAt = 6 * 60 * 60 * 1000
        /\ i < Len(log) /\ IsSearch(i + 1)

\* C6: one getKeys sends at most two homepage requests, the second right
\* after a failed first; the pair of a successful request (the second too)
\* is the pair used for the search request; when both fail, getKeys throws
\* the error of the first request, and a call that ends there ends with it.
C6_HomepageAtMostTwice ==
    \A i \in DOMAIN log :
        IsHome(i) =>
            LET second == i > 1 /\ IsHome(i - 1) /\ SameAttempt(i - 1, i)
            IN /\ Cardinality({j \in DOMAIN log : IsHome(j) /\ SameAttempt(i, j)}) <= 2
               /\ \A j \in 1..(i - 1) :
                     (IsHome(j) /\ SameAttempt(i, j)) => (j = i - 1 /\ log[j].keys = Null)
               /\ log[i].keys # Null =>
                     IF i = Len(log)
                     THEN pc = "search" /\ call.keys = log[i].keys
                     ELSE IsSearch(i + 1) /\ SameAttempt(i, i + 1)
                          /\ SentKeysOf(i + 1, log[i].keys)
               /\ (second /\ log[i].keys = Null) =>
                     /\ log[i].thrown = log[i - 1].err
                     /\ (i = Len(log) /\ Done) => Failed(log[i - 1].err)

\* C6 witness: two failed homepage requests with different errors, and the
\* call has ended with the first one
C6_Witness ==
    /\ Done
    /\ Len(log) >= 2
    /\ LET n == Len(log)
       IN /\ IsHome(n) /\ IsHome(n - 1) /\ SameAttempt(n - 1, n)
          /\ log[n].keys = Null
          /\ log[n].err # log[n - 1].err
          /\ Failed(log[n - 1].err)

Succeeded == mode = "cli" /\ Done /\ out.exitCode = 0

FirstIndexOf(id) ==
    CHOOSE k \in DOMAIN allMapped :
        /\ allMapped[k].id = id
        /\ \A j \in DOMAIN allMapped : allMapped[j].id = id => k <= j

\* C7: the deals returned have pairwise distinct ids, and each of them is the
\* first deal with its id in query order then result order (so it carries
\* the sourceQuery of the earliest query that returned the id).
C7_DedupeKeepsFirst ==
    Succeeded =>
        /\ \A i, j \in DOMAIN out.deals :
              i # j => out.deals[i].id # out.deals[j].id
        /\ \A i \in DOMAIN out.deals :
              out.deals[i] = allMapped[FirstIndexOf(out.deals[i].id)]

\* C7 witness: an id returned by two queries, with another store and price
\* the second time, is among the deals returned
C7_Witness ==
    /\ Succeeded
    /\ \E i \in DOMAIN out.deals : \E j \in DOMAIN allMapped :
          /\ allMapped[j].id = out.deals[i].id
          /\ allMapped[j].sourceQuery # out.deals[i].sourceQuery
          /\ allMapped[j].store # out.deals[i].store

HasPrice(d) == d.pricePerLitre # Null

\* C8: in the deals returned no deal without price per litre stands before a
\* deal with one, and the deals with one are in ascending order of it.
C8_SortedNullsLast ==
    Succeeded =>
        \A i, j \in DOMAIN out.deals :
            i < j =>
                /\ ~(~HasPrice(out.deals[i]) /\ HasPrice(out.deals[j]))
                /\ (HasPrice(out.deals[i]) /\ HasPrice(out.deals[j])) =>
                      out.deals[i].pricePerLitre.n * out.deals[j].pricePerLitre.d
                        <= out.deals[j].pricePerLitre.n * out.deals[i].pricePerLitre.d

\* C8 witness: the upstream returned a deal without price per litre before a
\* deal with one, and both are returned
C8_Witness ==
    /\ Succeeded
    /\ \E i, j \in DOMAIN allMapped :
          /\ i < j
          /\ ~HasPrice(allMapped[i]) /\ HasPrice(allMapped[j])
          /\ \E k, m \in DOMAIN out.deals :
                out.deals[k] = allMapped[i] /\ out.deals[m] = allMapped[j]

\* C9: when an invocation with several query terms fails in the search of
\* one of them, nothing was written to standard output, one line starting
\* with "Error: " was written to the error stream, the exit code is 1, and
\* no request was sent for a query after the failing one.
C9_FailureAbortsAggregation ==
    (mode = "cli" /\ Done /\ Len(params.queries) > 1 /\ out.exitCode # 0) =>
        /\ out.exitCode = 1
        /\ out.stdout = <<>>
        /\ Len(out.stderr) = 1
        /\ StartsWith(out.stderr[1], <<"E", "r", "r", "o", "r", ":", " ">>)
        /\ call.qi \in 1..Len(params.queries)
        /\ \A i \in DOMAIN log : log[i].qi <= call.qi

\* C9 witness: the second of two queries failed after the first had
\* returned offers
C9_Witness ==
    /\ mode = "cli" /\ Done /\ out.exitCode = 1
    /\ Len(params.queries) = 2
    /\ call.qi = 2
    /\ allMapped # <<>>
    /\ IsSearch(Len(log)) /\ log[Len(log)].err # <<>>

IdText(id) == IF IsNum(id) THEN NumToStr(id) ELSE id.s

\* the stretches of digits of txt that have only blanks before and after
DigitCores(txt) ==
    {c \in (1..Len(txt)) \X (1..Len(txt)) :
        /\ c[1] <= c[2]
        /\ \A k \in 1..Len(txt) :
              IF k \in c[1]..c[2] THEN txt[k] \in DigitChars
              ELSE txt[k] \in WhiteChars}

\* C10: the detail URL of a deal is non-null exactly when the id of the offer
\* is present and its text is a non-empty run of decimal digits with nothing
\* but blanks around it; the URL is then
\* "https://www.marktguru.de/offers/" followed by those digits.
C10_UrlOnlyForDigitIds ==
    (mode = "deal" /\ Done) =>
        LET id == argv.offer.id
            url == out.deals[1].url
        IN IF id # Null /\ DigitCores(IdText(id)) # {}
           THEN /\ url # Null
                /\ \A c \in DigitCores(IdText(id)) :
                      url.s = OffersUrlPrefix \o SubSeq(IdText(id), c[1], c[2])
           ELSE url = Null

\* C10 witness: the id "21916812; DROP" gave a deal without URL
C10_Witness ==
    /\ mode = "deal" /\ Done
    /\ argv.offer.id = Str(<<"2", "1", "9", "1", "6", "8", "1", "2", ";", " ", "D", "R", "O", "P">>)
    /\ out.deals[1].url = Null

\* the quantity the price per litre is computed with: 1 unless the offer
\* holds a number
C11_Quantity(offer) == IF IsNum(offer.quantity) THEN offer.quantity ELSE Int1(1)
C11_TotalVolume(offer) == NumMul(offer.volume, C11_Quantity(offer))
C11_UnitIsLitre(offer) ==
    /\ IsStr(offer.unit) /\ offer.unit.s \in {<<"l">>, <<"L">>}
    /\ IsNum(offer.referencePrice)
\* no price per litre can be computed
C11_NoQuotient(offer) ==
    \/ ~IsNum(offer.price) \/ ~IsNum(offer.volume)
    \/ ~IsFinite(C11_TotalVolume(offer)) \/ C11_TotalVolume(offer).n <= 0
    \/ ~IsFinite(offer.price)

\* C11: computePricePerLitre returns the reference price unchanged when the
\* unit is "l" in either case and the reference price is a number, whatever
\* price, volume and quantity are; otherwise it returns null exactly when
\* price or volume is missing or not a number, or volume x quantity (the
\* quantity 1 when absent) is not a positive finite number, or the quotient
\* is not finite, and else a finite number that multiplied by
\* volume x quantity gives the price.
C11_PricePerLitre ==
    (mode = "price" /\ Done) =>
        LET offer == argv.offer
            result == out.outcome
        IN IF C11_UnitIsLitre(offer) THEN result = offer.referencePrice
           ELSE IF C11_NoQuotient(offer) THEN result = Null
           ELSE /\ IsNum(result) /\ IsFinite(result)
                /\ NumEq(NumMul(result, C11_TotalVolume(offer)), offer.price)

\* C11 witness: 1.29 for 6 x 1/2 litre gave 0.43 per litre
C11_Witness ==
    /\ mode = "price" /\ Done
    /\ argv.offer.price = Num(129, 100) /\ argv.offer.volume = Num(1, 2)
    /\ argv.offer.quantity = Int1(6)
    /\ argv.offer.unit = Str(<<"m", "l">>)
    /\ IsNum(out.outcome) /\ NumEq(out.outcome, Num(43, 100))

\* the texts that formatDealsTable puts into the bounded columns of the row
\* of a deal
C12_Values(deal) ==
    << IF deal.description # <<>> THEN deal.description ELSE deal.productName,
       deal.store, deal.size, formatPrice(deal.price),
       formatPricePerLitre(deal.pricePerLitre),
       deal.validFrom \o <<" ", "-", " ">> \o deal.validTo >>

\* C12: every cell of a bounded column of the table is exactly as long as
\* its column: a longer value is cut and ends in the marker, a shorter one
\* is followed by spaces only.
C12_CellsHaveColumnWidth ==
    (mode = "table" /\ Done /\ Len(argv.deals) > 0) =>
        \A r \in 2..Len(out.stdout) : \A c \in 1..Len(ColumnWidths) :
            LET cell == out.stdout[r][c]
                value == C12_Values(argv.deals[r - 1])[c]
                width == ColumnWidths[c]
            IN /\ Len(cell) = width
               /\ IF Len(value) > width
                  THEN \E k \in 0..(width - 1) :
                          /\ SubSeq(cell, 1, k) = SubSeq(value, 1, k)
                          /\ \A i \in (k + 1)..width : cell[i] = "."
                  ELSE /\ SubSeq(cell, 1, Len(value)) = value
                       /\ \A i \in (Len(value) + 1)..width : cell[i] = " "

\* invocation i of a session
IsConfigSet(i, key) ==
    /\ log[i].command.command = "config"
    /\ Len(log[i].command.rest) >= 2
    /\ log[i].command.rest[1] = TokSet /\ log[i].command.rest[2] = key
IsConfigShow(i) ==
    /\ log[i].command.command = "config"
    /\ (Len(log[i].command.rest) = 0 \/ log[i].command.rest[1] # TokSet)
IsSessionSearch(i) == log[i].command.command = "search"
Succeeded_(i) == log[i].exitCode = 0
\* the value tokens of a config set, joined
SetValue(i) ==
    JoinSpaces(SubSeq(log[i].command.rest, 3, Len(log[i].command.rest)))

\* C13: a config that follows a successful config set zip Z reports Z
\* trimmed as defaultZip and the defaultStores in effect before the set; a
\* config that follows a successful config set stores reports the parsed
\* list and the defaultZip in effect before the set.
C13_ConfigRoundTrip ==
    mode = "session" =>
        \A i \in 1..(Len(log) - 1) :
            /\ (IsConfigSet(i, KeyZip) /\ Succeeded_(i) /\ IsConfigShow(i + 1)) =>
                   /\ log[i + 1].printed # Null
                   /\ log[i + 1].printed.defaultZip = Trim(SetValue(i))
                   /\ log[i + 1].printed.defaultStores = log[i].loaded.defaultStores
            /\ (IsConfigSet(i, KeyStores) /\ Succeeded_(i) /\ IsConfigShow(i + 1)) =>
                   /\ log[i + 1].printed # Null
                   /\ log[i + 1].printed.defaultStores
                        = SelectNonEmpty(TrimAll(SplitCommas(SetValue(i))))
                   /\ log[i + 1].printed.defaultZip = log[i].loaded.defaultZip

\* C14: config set reset, with or without tokens after the key, succeeds
\* and leaves the built-in defaults in the preference file, whatever the
\* file held before (a file that cannot be written is left aside).
C14_ResetRestoresDefaults ==
    mode = "session" =>
        \A i \in 1..Len(log) :
            (IsConfigSet(i, KeyReset) /\ log[i].before # Unwritable) =>
                /\ Succeeded_(i)
                /\ log[i].after = saveConfig(DEFAULT_CONFIG)
                /\ log[i].printed = DEFAULT_CONFIG

\* the invocation was a config set that saved new preferences
IsSuccessfulSet(i) ==
    /\ log[i].command.command = "config"
    /\ Len(log[i].command.rest) >= 1 /\ log[i].command.rest[1] = TokSet
    /\ Succeeded_(i)

\* C15: loadConfig never throws: on a preference file that is absent,
\* unreadable or not JSON it returns the built-in defaults and leaves them
\* in the file; on a parsed file a field that is missing or of the wrong
\* type takes its built-in default.
C15_LoadNeverFails ==
    mode = "session" =>
        \A i \in 1..Len(log) :
            log[i].loadCalled =>
                /\ log[i].loaded # Null
                /\ log[i].before \in {Null, Unwritable} =>
                      /\ log[i].loaded = DEFAULT_CONFIG
                      /\ ~IsSuccessfulSet(i) => log[i].after = saveConfig(DEFAULT_CONFIG)
                /\ log[i].before.t = "cfg" =>
                      /\ ~IsStr(log[i].before.defaultZip) =>
                            log[i].loaded.defaultZip = DefaultZip
                      /\ log[i].before.defaultStores.t # "list" =>
                            log[i].loaded.defaultStores = DefaultStores

\* the session started without a preference file
StartedWithoutFile ==
    IF Len(log) = 0 THEN configFile = Null ELSE log[1].before = Null

\* C16: in a session that started without a preference file the persisted
\* default postal code is always a text of 4 to 6 digits, and no search
\* without --zip ends with the postal code error.
C16_PersistedZipValid ==
    (mode = "session" /\ StartedWithoutFile) =>
        /\ configFile # Null =>
              /\ IsStr(configFile.defaultZip)
              /\ Len(configFile.defaultZip.s) \in 4..6
              /\ AllDigits(configFile.defaultZip.s)
        /\ \A i \in 1..Len(log) :
              (IsSessionSearch(i) /\ log[i].command.args.zip = <<>>) =>
                  ~StartsWith(log[i].err, MsgInvalidZipPre)

\* C17: an invocation that is not a successful config set leaves a parsed
\* preference file as it was: a search, a config without set, a config set
\* that ends with an error.
C17_FileChangedOnlyBySet ==
    mode = "session" =>
        \A i \in 1..Len(log) :
            (log[i].before.t = "cfg" /\ ~IsSuccessfulSet(i)) =>
                log[i].after = log[i].before

\* C17 witness: a search, a config and a config set of a store list that is
\* empty after parsing ran on a file that holds blanks saveConfig would not
\* write, and the file is as before
C17_Witness ==
    /\ mode = "session" /\ Len(log) = 3
    /\ IsSessionSearch(1) /\ IsConfigShow(2)
    /\ IsConfigSet(3, KeyStores) /\ log[3].err = MsgStoresList
    /\ log[1].before =
         ConfigFile(Str(<<" ", "1", "2", "3", "4">>),
                    List(<< <<"R", "E", "W", "E", " ">>, <<" ">> >>))
    /\ configFile = log[1].before

\* the invocation ended with an error of validateInputs
EndedWithValidationError ==
    /\ mode = "cli" /\ Done /\ out.exitCode = 1
    /\ Len(out.stderr) = 1
    /\ StartsWith(out.stderr[1], ErrorPrefix)
    /\ C2_IsValidationError(SubSeq(out.stderr[1], Len(ErrorPrefix) + 1,
                                   Len(out.stderr[1])))

\* C18: an invocation that ends with a validation error has sent no
\* homepage and no search request, for any number of query terms.
C18_ValidationErrorMeansNoRequest ==
    EndedWithValidationError =>
        \A i \in DOMAIN log : ~IsHome(i) /\ ~IsSearch(i)

\* requests i - 1 and i are the two failed homepage requests of the
\* credential resolution of a first attempt
BothHomepageFetchesFailed(i) ==
    /\ i > 1 /\ IsHome(i) /\ IsHome(i - 1) /\ SameAttempt(i - 1, i)
    /\ log[i].attempt = 1
    /\ log[i].keys = Null /\ log[i - 1].keys = Null

\* C19: when both homepage requests of the credential resolution of a
\* search call fail, whatever their status, the call ends there with the
\* credential error: no forced-refresh retry starts and no third homepage
\* request follows.
C19_CredentialFailureNotRetried ==
    \A i \in DOMAIN log :
        BothHomepageFetchesFailed(i) =>
            /\ i = Len(log)
            /\ Failed(log[i - 1].err)

\* C20: a homepage request that yields a pair leaves exactly that pair in
\* the cache file, stamped with the time of the request, and it is the pair
\* the credential resolution returns; a homepage request that fails leaves
\* the cache file as it was.
C20_ScrapeReplacesCache ==
    [][(Len(log') = Len(log) + 1 /\ log'[Len(log')].kind = "home") =>
          LET scraped == log'[Len(log')].keys
          IN IF scraped # Null
             THEN /\ keysFile' = scraped
                  /\ keysFile'.fetchedAt = now
                  /\ keysFile'.apiKey # <<>> /\ keysFile'.clientKey # <<>>
                  /\ call'.keys = keysFile'
             ELSE keysFile' = keysFile]_vars

\* C20 witness: a stale pair in the cache file was replaced by the pair of
\* a scrape that happened after the read of the cache
C20_Witness ==
    /\ Len(log) >= 2
    /\ IsCache(1) /\ ~log[1].hit /\ log[1].file # Null
    /\ IsHome(Len(log)) /\ log[Len(log)].keys # Null
    /\ keysFile = log[Len(log)].keys
    /\ keysFile.fetchedAt > log[1].at
    /\ keysFile.apiKey # log[1].file.apiKey

\* the sum of the totalResults of the answered search requests 1..i
RECURSIVE TotalUpTo(_)
TotalUpTo(i) ==
    IF i = 0 THEN 0
    ELSE TotalUpTo(i - 1)
         + (IF IsSearch(i) /\ log[i].err = <<>>
            THEN log[i].totalResults.n \div log[i].totalResults.d ELSE 0)

\* C21: the reads and requests of an invocation are made query by query in
\* the order of the command line: the first is for the first query, one for
\* query k + 1 follows only the answered search request of query k, none
\* for an earlier query comes later, every search request carries the
\* query of its position; an invocation that succeeds has sent one answered
\* search request per query and reports the sum of their totalResults.
C21_QueriesOneAtATime ==
    mode = "cli" =>
        /\ \A i \in DOMAIN log :
              /\ log[i].qi \in 1..Len(argv.queries)
              /\ log[i].qi = (IF i = 1 THEN 1
                              ELSE IF IsSearch(i - 1) /\ log[i - 1].err = <<>>
                              THEN log[i - 1].qi + 1
                              ELSE log[i - 1].qi)
              /\ IsSearch(i) => log[i].query = Trim(argv.queries[log[i].qi])
        /\ Succeeded =>
              /\ \A k \in 1..Len(argv.queries) :
                    Cardinality({i \in DOMAIN log :
                        IsSearch(i) /\ log[i].qi = k /\ log[i].err = <<>>}) = 1
              /\ NumEq(totalRawResults, Int1(TotalUpTo(Len(log))))
              /\ \E j \in DOMAIN out.stdout :
                    /\ out.stdout[j].t \in {"found", "json"}
                    /\ out.stdout[j].totalRawResults = totalRawResults

\* C21 witness: two queries were answered with the same offer, one deal is
\* returned and the total counts both answers
C21_Witness ==
    /\ Succeeded
    /\ Len(argv.queries) = 2
    /\ Len(allMapped) = 2 /\ Len(out.deals) = 1
    /\ NumEq(totalRawResults, Int1(12))
    /\ \E i, j \in DOMAIN log :
          /\ i < j /\ IsSearch(i) /\ IsSearch(j)
          /\ log[i].qi = 1 /\ log[j].qi = 2

\* the store of the deal contains one of the store terms, whatever the case
\* of the letters (every deal when there is no term)
StoreWanted(deal) ==
    \/ Len(params.stores) = 0
    \/ \E s \in DOMAIN params.stores :
          Includes(ToLower(deal.store), ToLower(params.stores[s]))

\* the deals left after deduplication and the store filter
Candidates ==
    {allMapped[i] : i \in {k \in DOMAIN allMapped :
        k = FirstIndexOf(allMapped[k].id) /\ StoreWanted(allMapped[k])}}
Returned == {out.deals[i] : i \in DOMAIN out.deals}
LimitOf == params.limit.n \div params.limit.d

\* C22: the deals returned are as many of the deduplicated, store-filtered
\* deals as the limit allows; a deal with a price per litre that is left out
\* is at least as expensive per litre as every deal returned, and a deal
\* without price per litre is returned only when fewer than limit deals
\* with one remain.
C22_TruncatedAfterSorting ==
    Succeeded =>
        /\ Len(out.deals) = Min(LimitOf, Cardinality(Candidates))
        /\ Cardinality(Returned) = Len(out.deals)
        /\ Returned \subseteq Candidates
        /\ \A o \in Candidates \ Returned : \A r \in Returned :
              HasPrice(o) => (HasPrice(r) /\ NumLeq(r.pricePerLitre, o.pricePerLitre))
        /\ (\E r \in Returned : ~HasPrice(r)) =>
              Cardinality({c \in Candidates : HasPrice(c)}) < LimitOf

\* C22 witness: with the limit 1 the cheaper of two deals is returned
\* although the upstream returned it second, and with a store term and the
\* limit 1 the deal of another store that came first is left out
C22_Witness ==
    /\ Succeeded /\ LimitOf = 1
    /\ Len(allMapped) = 2 /\ Len(out.deals) = 1
    /\ out.deals[1] = allMapped[2]
    /\ \/ /\ Cardinality(Candidates) = 2
          /\ HasPrice(allMapped[1])
          /\ NumLess(allMapped[2].pricePerLitre, allMapped[1].pricePerLitre)
       \/ /\ Len(argv.stores) > 0
          /\ ~StoreWanted(allMapped[1])

\* C23: no two of the deals returned carry the same detail URL, unless they
\* have none.
C23_DistinctUrls ==
    Succeeded =>
        \A i, j \in DOMAIN out.deals :
            (i # j /\ out.deals[i].url # Null) => out.deals[i].url # out.deals[j].url

\* C24: the preferences loadConfig returns hold at least one store, and
\* every store is a non-empty text without blanks around it, whatever the
\* preference file held and whatever config set ran before (a search
\* without --stores takes its store terms from these preferences).
C24_LoadedStoresNonEmpty ==
    mode = "session" =>
        \A i \in 1..Len(log) :
            (log[i].loadCalled /\ log[i].loaded # Null) =>
                LET stores == log[i].loaded.defaultStores
                IN /\ Len(stores) > 0
                   /\ \A s \in DOMAIN stores :
                         stores[s] # <<>> /\ stores[s] = Trim(stores[s])

====
